---- MODULE Spec2Model ----
(***************************************************************************)
(* Model of resp_stateful_codec::RespDecoder (src/src/lib.rs), the         *)
(* resumable RESP decoder, driven by a caller that appends the bytes of an *)
(* input stream to a BytesMut buffer and calls decode.                     *)
(*                                                                         *)
(* Bytes are one-token strings.  "CR" and "LF" are 0x0d and 0x0a, "xFF" is *)
(* the byte 0xff (never part of valid UTF-8); every other token is the     *)
(* ASCII character it shows.                                               *)
(***************************************************************************)
EXTENDS Integers, Sequences, FiniteSets, TLC

VARIABLES
    input,       \* the byte stream the transport will deliver
    fed,         \* how many of its bytes were appended to the buffer so far
    src,         \* the BytesMut buffer handed to decode
    ptr,         \* RespDecoder.ptr
    cached_len,  \* RespDecoder.cached_len
    doing,       \* RespDecoder.doing ("None" or the Op)
    stack,       \* RespDecoder.stack, innermost context last
    last,        \* history: the latest decode call, its outcome and the state it started from
    outs,        \* history: the outcomes other than Suspend, in order
    firstFed,    \* history: fed at the first decode call, -1 before it
    event        \* history: PubSubEvent::try_from on the latest value, its argument and Result

vars == <<input, fed, src, ptr, cached_len, doing, stack, last, outs, firstFed, event>>

----------------------------------------------------------------------------
(* Bytes                                                                   *)

CR == "CR"
LF == "LF"
BadByte == "xFF"
Digits == <<"0", "1", "2", "3", "4", "5", "6", "7", "8", "9">>

IsDigit(b) == \E i \in 1..10 : Digits[i] = b
DigitVal(b) == (CHOOSE i \in 1..10 : Digits[i] = b) - 1

(* Option<T>: None is the empty sequence, Some(x) the one-element sequence *)
None == <<>>
Some(x) == <<x>>

(* std::str::from_utf8 over the model's bytes: ASCII tokens are valid, 0xff is not *)
from_utf8_ok(w) == \A i \in 1..Len(w) : w[i] # BadByte

RECURSIVE DigitsValue(_)
DigitsValue(w) ==
    IF Len(w) = 0 THEN 0
    ELSE 10 * DigitsValue(SubSeq(w, 1, Len(w) - 1)) + DigitVal(w[Len(w)])

(* str::parse::<i64>: optional sign, then one or more decimal digits.  The   *)
(* lines of the model are shorter than 10 digits, so the range check of i64 *)
(* never rejects.  None is Err, Some(n) is Ok(n).                           *)
parse_i64(w) ==
    LET signed == Len(w) >= 1 /\ w[1] \in {"+", "-"}
        body == IF signed THEN Tail(w) ELSE w
    IN  IF Len(body) = 0 \/ \E i \in 1..Len(body) : ~IsDigit(body[i])
        THEN None
        ELSE Some(IF signed /\ w[1] = "-" THEN 0 - DigitsValue(body) ELSE DigitsValue(body))

----------------------------------------------------------------------------
(* RedisValue (lib.rs 330-336), as tagged tuples                            *)

SimpleString(s) == <<"SimpleString", s>>
Error(s) == <<"Error", s>>
Integer(n) == <<"Integer", n>>
BulkString(opt) == <<"BulkString", opt>>
Array(opt) == <<"Array", opt>>

(* io::Result: Ok(v), Err(kind, msg); a panic unwinds out of decode          *)
Ok(v) == [ok |-> TRUE, v |-> v, kind |-> "", msg |-> ""]
Err(kind, msg) == [ok |-> FALSE, v |-> None, kind |-> kind, msg |-> msg]
Panic(msg) == Err("Panic", msg)

(* the part of a call's outcome that is state: decoder fields and buffer    *)
St(p, c, d, s, b) == [ptr |-> p, cached_len |-> c, doing |-> d, stack |-> s, src |-> b]
Ret(st, r) == [st |-> st, r |-> r]

(* the scanned-offset limit of next_crlf, 512_000_000 in the source, scaled *)
ScanLimit == 5

----------------------------------------------------------------------------
(* ArrayContext (lib.rs 338-366)                                            *)

(* Vec::with_capacity(len as usize) panics with a capacity overflow for len < 0 *)
ArrayContext_new(len) ==
    IF len < 0 THEN Panic("capacity overflow")
    ELSE Ok([rem |-> len, items |-> <<>>])

ArrayContext_push(ctx, item) == [rem |-> ctx.rem - 1, items |-> Append(ctx.items, item)]

is_complete(ctx) == ctx.rem = 0

----------------------------------------------------------------------------
(* RespDecoder (lib.rs 384-532)                                             *)

get_op_lenient(st) ==
    IF Len(st.src) < 1 THEN Ret(st, Panic("split_to out of bounds"))
    ELSE LET byte == st.src[1]
             st1 == [st EXCEPT !.src = Tail(st.src)]
         IN  CASE byte = "+" -> Ret(st1, Ok("SimpleString"))
               [] byte = "-" -> Ret(st1, Ok("Error"))
               [] byte = ":" -> Ret(st1, Ok("Integer"))
               [] byte = "$" -> Ret(st1, Ok("BulkString"))
               [] byte = "*" -> Ret(st1, Ok("Array"))
               [] OTHER -> Ret(st1, Ok("SimpleString"))

(* src.split_to(1) panics on an empty buffer, so the let-else arm is dead   *)
get_op(st) ==
    IF Len(st.src) < 1 THEN Ret(st, Panic("split_to out of bounds"))
    ELSE LET byte == st.src[1]
             st1 == [st EXCEPT !.src = Tail(st.src)]
         IN  CASE byte = "+" -> Ret(st1, Ok("SimpleString"))
               [] byte = "-" -> Ret(st1, Ok("Error"))
               [] byte = ":" -> Ret(st1, Ok("Integer"))
               [] byte = "$" -> Ret(st1, Ok("BulkString"))
               [] byte = "*" -> Ret(st1, Ok("Array"))
               [] OTHER -> Ret(st1, Err("InvalidData", "invalid prefix"))

RECURSIVE next_crlf_skip(_)
next_crlf_skip(st) ==
    IF st.ptr + 2 > Len(st.src)
    THEN Ret([st EXCEPT !.ptr = st.ptr + 1], Err("UnexpectedEof", ""))
    ELSE IF st.ptr > ScanLimit THEN Ret(st, Err("InvalidData", "too long"))
    ELSE IF st.src[st.ptr + 1] = CR /\ st.src[st.ptr + 2] = LF
         THEN Ret([st EXCEPT !.ptr = 0], Ok(0))
         ELSE next_crlf_skip([st EXCEPT !.ptr = st.ptr + 1])

(* next_crlf without the limit on the scanned offset                        *)
RECURSIVE next_crlf_nolimit(_)
next_crlf_nolimit(st) ==
    IF st.ptr + 2 > Len(st.src) THEN Ret(st, Err("UnexpectedEof", ""))
    ELSE IF st.src[st.ptr + 1] = CR /\ st.src[st.ptr + 2] = LF
         THEN Ret([st EXCEPT !.ptr = 0], Ok(0))
         ELSE next_crlf_nolimit([st EXCEPT !.ptr = st.ptr + 1])

(* next_crlf forgetting its cursor when the buffer runs out                 *)
RECURSIVE next_crlf_rescan(_)
next_crlf_rescan(st) ==
    IF st.ptr + 2 > Len(st.src) THEN Ret([st EXCEPT !.ptr = 0], Err("UnexpectedEof", ""))
    ELSE IF st.ptr > ScanLimit THEN Ret(st, Err("InvalidData", "too long"))
    ELSE IF st.src[st.ptr + 1] = CR /\ st.src[st.ptr + 2] = LF
         THEN Ret([st EXCEPT !.ptr = 0], Ok(0))
         ELSE next_crlf_rescan([st EXCEPT !.ptr = st.ptr + 1])

(* next_crlf returning the cursor without resetting it                      *)
RECURSIVE next_crlf_keep(_)
next_crlf_keep(st) ==
    IF st.ptr + 2 > Len(st.src) THEN Ret(st, Err("UnexpectedEof", ""))
    ELSE IF st.ptr > ScanLimit THEN Ret(st, Err("InvalidData", "too long"))
    ELSE IF st.src[st.ptr + 1] = CR /\ st.src[st.ptr + 2] = LF
         THEN Ret(st, Ok(st.ptr))
         ELSE next_crlf_keep([st EXCEPT !.ptr = st.ptr + 1])

(* next_crlf handing back the offset it found, then resetting the cursor    *)
RECURSIVE next_crlf_index(_)
next_crlf_index(st) ==
    IF st.ptr + 2 > Len(st.src) THEN Ret(st, Err("UnexpectedEof", ""))
    ELSE IF st.ptr > ScanLimit THEN Ret(st, Err("InvalidData", "too long"))
    ELSE IF st.src[st.ptr + 1] = CR /\ st.src[st.ptr + 2] = LF
         THEN Ret([st EXCEPT !.ptr = 0], Ok(st.ptr))
         ELSE next_crlf_index([st EXCEPT !.ptr = st.ptr + 1])

(* the loop of next_crlf; on a match ptr is reset before it is returned,    *)
(* so the index handed back is 0                                            *)
RECURSIVE next_crlf(_)
next_crlf(st) ==
    IF st.ptr + 2 > Len(st.src) THEN Ret(st, Err("UnexpectedEof", ""))
    ELSE IF st.ptr > ScanLimit THEN Ret(st, Err("InvalidData", "too long"))
    ELSE IF st.src[st.ptr + 1] = CR /\ st.src[st.ptr + 2] = LF
         THEN Ret([st EXCEPT !.ptr = 0], Ok(0))
         ELSE next_crlf([st EXCEPT !.ptr = st.ptr + 1])

(* BytesMut::split_to(at): the first at bytes, and the buffer without them  *)
split_to(st, at) == [window |-> SubSeq(st.src, 1, at),
                     st |-> [st EXCEPT !.src = SubSeq(st.src, at + 1, Len(st.src))]]

(* src.advance(2) after the window was split off; advance panics past the end *)
advance_crlf(st, v) ==
    IF Len(st.src) < 2 THEN Ret(st, Panic("cannot advance past remaining"))
    ELSE Ret([st EXCEPT !.src = SubSeq(st.src, 3, Len(st.src))], Ok(v))

(* inner_string from the split window on: from_utf8, advance(2)             *)
string_of(sp) ==
    IF ~from_utf8_ok(sp.window) THEN Ret(sp.st, Err("InvalidData", "invalid utf8"))
    ELSE advance_crlf(sp.st, sp.window)

(* inner_string after next_crlf: `?`, then split_to(idx)                    *)
take_string(c) == IF ~c.r.ok THEN c ELSE string_of(split_to(c.st, c.r.v))

inner_string(st) == take_string(next_crlf(st))

(* inner_i32 from the split window on: from_utf8, parse, advance(2)         *)
i64_of(sp) ==
    IF ~from_utf8_ok(sp.window) THEN Ret(sp.st, Err("InvalidData", "invalid utf8"))
    ELSE IF parse_i64(sp.window) = None
    THEN Ret(sp.st, Err("InvalidData", "invalid integer"))
    ELSE advance_crlf(sp.st, parse_i64(sp.window)[1])

take_i64(c) == IF ~c.r.ok THEN c ELSE i64_of(split_to(c.st, c.r.v))

inner_i32(st) == take_i64(next_crlf(st))

(* Ok(Variant(x?)): wrap the reader's result, or pass its error on          *)
wrap(s, variant) == IF s.r.ok THEN Ret(s.st, Ok(<<variant, s.r.v>>)) ELSE s

get_simple_string(st) == wrap(inner_string(st), "SimpleString")

get_error(st) == wrap(inner_string(st), "Error")

get_integer(st) == wrap(inner_i32(st), "Integer")

(* the payload step of get_bulk_string, once len is known and cached;       *)
(* split_to(len as usize) panics for a negative len                         *)
bulk_payload(st, len) ==
    IF len > Len(st.src) THEN Ret(st, Err("UnexpectedEof", ""))
    ELSE IF len < 0
    THEN Ret([st EXCEPT !.cached_len = None], Panic("split_to out of bounds"))
    ELSE Ret([st EXCEPT !.cached_len = None, !.src = SubSeq(st.src, len + 1, Len(st.src))],
             Ok(BulkString(Some(SubSeq(st.src, 1, len)))))

(* get_bulk_string after the length line was read                           *)
bulk_after_len(n) ==
    IF ~n.r.ok THEN n
    ELSE IF n.r.v = -1 THEN Ret(n.st, Ok(BulkString(None)))
    ELSE bulk_payload([n.st EXCEPT !.cached_len = Some(n.r.v)], n.r.v)

get_bulk_string(st) ==
    IF st.cached_len # None THEN bulk_payload(st, st.cached_len[1])
    ELSE bulk_after_len(inner_i32(st))

(* get_array after the count line was read: Ok(None) for -1, else Ok(Some(ctx)) *)
array_after_len(n) ==
    IF ~n.r.ok THEN n
    ELSE IF n.r.v = -1 THEN Ret(n.st, Ok(None))
    ELSE IF ArrayContext_new(n.r.v).ok THEN Ret(n.st, Ok(Some(ArrayContext_new(n.r.v).v)))
    ELSE Ret(n.st, ArrayContext_new(n.r.v))

get_array(st) == array_after_len(inner_i32(st))

(* the completion loop of cached_decode (lib.rs 519-529): the stack left    *)
(* behind and, when the stack ran empty, the value to return                *)
RECURSIVE completion(_, _)
completion(stk, val) ==
    IF Len(stk) = 0 THEN [stack |-> stk, ret |-> Some(val)]
    ELSE IF ~is_complete(ArrayContext_push(stk[Len(stk)], val))
    THEN [stack |-> Append(SubSeq(stk, 1, Len(stk) - 1),
                           ArrayContext_push(stk[Len(stk)], val)),
          ret |-> None]
    ELSE completion(SubSeq(stk, 1, Len(stk) - 1),
                    Array(Some(ArrayContext_push(stk[Len(stk)], val).items)))

(* the reader selected by `doing` (the match of lib.rs 503-516)             *)
read_op(st) ==
    CASE st.doing = "SimpleString" -> get_simple_string(st)
      [] st.doing = "Error" -> get_error(st)
      [] st.doing = "Integer" -> get_integer(st)
      [] st.doing = "BulkString" -> get_bulk_string(st)
      [] st.doing = "Array" -> get_array(st)

(* the value of the match for a reader that returned Ok                     *)
match_val(op, v) ==
    IF op # "Array" THEN v
    ELSE IF v = None THEN Array(None)
    ELSE Array(Some(v[1].items))

RECURSIVE cached_decode(_)
RECURSIVE after_op(_)
RECURSIVE after_reader(_, _)
RECURSIVE after_completion(_, _)

(* `self.doing = Some(self.get_op(src)?); continue`                         *)
after_op(o) ==
    IF ~o.r.ok THEN o ELSE cached_decode([o.st EXCEPT !.doing = o.r.v])

(* `return Ok(val)` when the stack ran empty, else `break` to the outer loop *)
after_completion(st, done) ==
    IF done.ret # None THEN Ret([st EXCEPT !.stack = done.stack], Ok(done.ret[1]))
    ELSE cached_decode([st EXCEPT !.stack = done.stack])

(* after the reader: `?`, push an open array context and `continue` with    *)
(* doing left as it is, or clear doing and run the completion loop          *)
after_reader(op, g) ==
    IF ~g.r.ok THEN g
    ELSE IF op = "Array" /\ g.r.v # None /\ ~is_complete(g.r.v[1])
    THEN cached_decode([g.st EXCEPT !.stack = Append(g.st.stack, g.r.v[1])])
    ELSE after_completion([g.st EXCEPT !.doing = "None"],
                          completion(g.st.stack, match_val(op, g.r.v)))

cached_decode(st) ==
    IF st.doing = "None" THEN after_op(get_op(st))
    ELSE after_reader(st.doing, read_op(st))

(* the match of Decoder::decode (lib.rs 539-546): the three-way outcome;    *)
(* a panic unwinds through it                                               *)
outcome(c) ==
    IF c.r.ok THEN Ret(c.st, [kind |-> "Value", val |-> Some(c.r.v), msg |-> ""])
    ELSE IF c.r.kind = "UnexpectedEof"
    THEN Ret(c.st, [kind |-> "Suspend", val |-> None, msg |-> ""])
    ELSE IF c.r.kind = "Panic"
    THEN Ret(c.st, [kind |-> "Panic", val |-> None, msg |-> c.r.msg])
    ELSE Ret(c.st, [kind |-> "Fatal", val |-> None, msg |-> c.r.msg])

decode(st) == outcome(cached_decode(st))

(* RespDecoder::default()                                                   *)
Fresh(buf) == St(0, None, "None", <<>>, buf)

----------------------------------------------------------------------------
(* The wire format, per leading byte                                        *)

RECURSIVE to_dec(_)
to_dec(n) ==
    IF n < 0 THEN <<"-">> \o to_dec(0 - n)
    ELSE IF n < 10 THEN <<Digits[n + 1]>>
    ELSE to_dec(n \div 10) \o <<Digits[(n % 10) + 1]>>

CRLF == <<CR, LF>>

RECURSIVE resp_encode(_)
RECURSIVE encode_all(_)
encode_all(items) ==
    IF Len(items) = 0 THEN <<>>
    ELSE resp_encode(Head(items)) \o encode_all(Tail(items))

resp_encode(v) ==
    CASE v[1] = "SimpleString" -> <<"+">> \o v[2] \o CRLF
      [] v[1] = "Error" -> <<"-">> \o v[2] \o CRLF
      [] v[1] = "Integer" -> <<":">> \o to_dec(v[2]) \o CRLF
      [] v[1] = "BulkString" ->
            IF v[2] = None THEN <<"$">> \o to_dec(-1) \o CRLF
            ELSE <<"$">> \o to_dec(Len(v[2][1])) \o CRLF \o v[2][1] \o CRLF
      [] v[1] = "Array" ->
            IF v[2] = None THEN <<"*">> \o to_dec(-1) \o CRLF
            ELSE <<"*">> \o to_dec(Len(v[2][1])) \o CRLF \o encode_all(v[2][1])

----------------------------------------------------------------------------
(* redis_protocol: RedisValue and RedisCodec (lib.rs 12-318, 551-565).      *)
(* The readers work on a cursor over the buffer (src: &mut &[u8]); a result *)
(* is the bytes left behind the cursor and the io::Result.                  *)

LString(b) == <<"String", b>>
LInt(n) == <<"Int", n>>
LList(items) == <<"List", items>>
LOk(s) == <<"Ok", s>>
LError(s) == <<"Error", s>>

Rd(buf, r) == [buf |-> buf, r |-> r]

(* str::trim over the model's bytes: CR and LF are the white space          *)
RECURSIVE trim_start(_)
trim_start(w) ==
    IF Len(w) > 0 /\ w[1] \in {CR, LF} THEN trim_start(Tail(w)) ELSE w

RECURSIVE trim_end(_)
trim_end(w) ==
    IF Len(w) > 0 /\ w[Len(w)] \in {CR, LF} THEN trim_end(SubSeq(w, 1, Len(w) - 1)) ELSE w

trim(w) == trim_end(trim_start(w))

(* take_vec: vec![0; n] then read_exact; n is `as usize`, so a negative     *)
(* length asks for more than a Vec can hold                                 *)
take_vec(buf, n) ==
    IF n < 0 THEN Rd(buf, Panic("capacity overflow"))
    ELSE IF n > Len(buf) THEN Rd(buf, Err("UnexpectedEof", ""))
    ELSE Rd(SubSeq(buf, n + 1, Len(buf)), Ok(SubSeq(buf, 1, n)))

(* pop_crlf without the comparison and without taking the two bytes         *)
pop_crlf_skip(buf, v) == Rd(buf, Ok(v))

(* pop_crlf, handing on the value v read before it                          *)
pop_crlf(buf, v) ==
    IF Len(buf) < 2 THEN Rd(buf, Err("UnexpectedEof", ""))
    ELSE IF SubSeq(buf, 1, 2) # <<CR, LF>>
    THEN Rd(SubSeq(buf, 3, Len(buf)), Err("InvalidData", "expected CRLF"))
    ELSE Rd(SubSeq(buf, 3, Len(buf)), Ok(v))

(* `for i in 0..`: the first i with CRLF at i..i+2, -1 when src.get fails   *)
RECURSIVE find_crlf(_, _)
find_crlf(buf, i) ==
    IF i + 2 > Len(buf) THEN -1
    ELSE IF buf[i + 1] = CR /\ buf[i + 2] = LF THEN i
    ELSE find_crlf(buf, i + 1)

(* read_length once i is known: from_utf8(&src[..=i]), trim, parse, take    *)
length_at(buf, i) ==
    IF i < 0 THEN Rd(buf, Err("UnexpectedEof", ""))
    ELSE IF ~from_utf8_ok(SubSeq(buf, 1, i + 1))
    THEN Rd(buf, Err("InvalidData", "len read failed (not a string)"))
    ELSE IF parse_i64(trim(SubSeq(buf, 1, i + 1))) = None
    THEN Rd(buf, Err("InvalidData", "len read failed (string not a number)"))
    ELSE Rd(SubSeq(buf, i + 3, Len(buf)), Ok(parse_i64(trim(SubSeq(buf, 1, i + 1)))[1]))

read_length(buf) == length_at(buf, find_crlf(buf, 0))

(* read_redis_generic_crlf_string once i is known                           *)
crlf_string_at(buf, i) ==
    IF i < 0 THEN Rd(buf, Err("UnexpectedEof", ""))
    ELSE IF ~from_utf8_ok(SubSeq(buf, 1, i + 1))
    THEN Rd(buf, Err("InvalidData", "string read failed (not a string)"))
    ELSE Rd(SubSeq(buf, i + 3, Len(buf)), Ok(trim(SubSeq(buf, 1, i + 1))))

read_redis_generic_crlf_string(buf) == crlf_string_at(buf, find_crlf(buf, 0))

(* Ok(Variant(x?))                                                          *)
lwrap(x, variant) == IF x.r.ok THEN Rd(x.buf, Ok(<<variant, x.r.v>>)) ELSE x

read_redis_int(buf) == lwrap(read_length(buf), "Int")

(* read_redis_string behind take_vec: `?`, then pop_crlf                    *)
string_after_take(t) == IF ~t.r.ok THEN t ELSE pop_crlf(t.buf, LString(t.r.v))

(* read_redis_string behind read_length                                     *)
string_after_len(l) ==
    IF ~l.r.ok THEN l
    ELSE IF l.r.v = -1 THEN Rd(l.buf, Ok(LString(<<>>)))
    ELSE string_after_take(take_vec(l.buf, l.r.v))

read_redis_string(buf) == string_after_len(read_length(buf))

RECURSIVE read_value(_)
RECURSIVE read_items(_, _, _)
RECURSIVE items_after(_, _, _)

(* the loop of read_redis_list: `parts.push(read_value(src)?)`, k times     *)
items_after(e, k, parts) ==
    IF ~e.r.ok THEN e ELSE read_items(e.buf, k - 1, Append(parts, e.r.v))

read_items(buf, k, parts) ==
    IF k = 0 THEN Rd(buf, Ok(LList(parts)))
    ELSE items_after(read_value(buf), k, parts)

(* read_redis_list behind read_length; Vec::with_capacity(len as usize)     *)
(* panics for a negative len                                                *)
list_after_len(l) ==
    IF ~l.r.ok THEN l
    ELSE IF l.r.v = -1 THEN Rd(l.buf, Ok(LList(<<>>)))
    ELSE IF l.r.v < 0 THEN Rd(l.buf, Panic("capacity overflow"))
    ELSE read_items(l.buf, l.r.v, <<>>)

read_redis_list(buf) == list_after_len(read_length(buf))

read_value(buf) ==
    IF Len(buf) < 1 THEN Rd(buf, Err("UnexpectedEof", ""))
    ELSE CASE buf[1] = "$" -> read_redis_string(Tail(buf))
           [] buf[1] = ":" -> read_redis_int(Tail(buf))
           [] buf[1] = "*" -> read_redis_list(Tail(buf))
           [] buf[1] = "+" -> lwrap(read_redis_generic_crlf_string(Tail(buf)), "Ok")
           [] buf[1] = "-" -> lwrap(read_redis_generic_crlf_string(Tail(buf)), "Error")
           [] OTHER -> Rd(Tail(buf), Err("InvalidData", "invalid type"))

(* the match of RedisCodec::decode advancing over what the reader consumed  *)
(* on an UnexpectedEof too                                                  *)
codec_outcome_eager(buf, x) ==
    IF x.r.ok THEN Rd(x.buf, [kind |-> "Value", val |-> Some(x.r.v), msg |-> ""])
    ELSE IF x.r.kind = "UnexpectedEof"
    THEN Rd(x.buf, [kind |-> "Suspend", val |-> None, msg |-> ""])
    ELSE IF x.r.kind = "Panic"
    THEN Rd(buf, [kind |-> "Panic", val |-> None, msg |-> x.r.msg])
    ELSE Rd(buf, [kind |-> "Fatal", val |-> None, msg |-> x.r.msg])

(* the match of RedisCodec::decode: advance over what the reader consumed,  *)
(* or leave the buffer for an UnexpectedEof or an error                     *)
codec_outcome(buf, x) ==
    IF x.r.ok THEN Rd(x.buf, [kind |-> "Value", val |-> Some(x.r.v), msg |-> ""])
    ELSE IF x.r.kind = "UnexpectedEof"
    THEN Rd(buf, [kind |-> "Suspend", val |-> None, msg |-> ""])
    ELSE IF x.r.kind = "Panic"
    THEN Rd(buf, [kind |-> "Panic", val |-> None, msg |-> x.r.msg])
    ELSE Rd(buf, [kind |-> "Fatal", val |-> None, msg |-> x.r.msg])

RedisCodec_decode(buf) == codec_outcome(buf, read_value(buf))

----------------------------------------------------------------------------
(* redis_protocol: PubSubEvent::try_from (lib.rs 28-188).  A String is the  *)
(* sequence of its characters; U+FFFD is the one character outside ASCII.   *)

Replacement == "uFFFD"

(* String::from_utf8_lossy: each invalid byte becomes U+FFFD                *)
from_utf8_lossy(b) == [i \in 1..Len(b) |-> IF b[i] = BadByte THEN Replacement ELSE b[i]]

(* String::into_bytes: U+FFFD is EF BF BD in UTF-8                          *)
RECURSIVE into_bytes(_)
into_bytes(s) ==
    IF Len(s) = 0 THEN <<>>
    ELSE (IF s[1] = Replacement THEN <<"xEF", "xBF", "xBD">> ELSE <<s[1]>>) \o into_bytes(Tail(s))

RECURSIVE as_str(_)
as_str(v) ==
    CASE v[1] = "String" -> from_utf8_lossy(v[2])
      [] v[1] = "Int" -> to_dec(v[2])
      [] v[1] = "Ok" -> v[2]
      [] v[1] = "Error" -> v[2]
      [] v[1] = "List" -> IF Len(v[2]) >= 1 THEN as_str(v[2][1]) ELSE <<>>

take_buffer(v) == IF v[1] = "String" THEN v[2] ELSE into_bytes(as_str(v))

MESSAGE == <<"m", "e", "s", "s", "a", "g", "e">>
PMESSAGE == <<"p">> \o MESSAGE
SUBSCRIBE == <<"s", "u", "b", "s", "c", "r", "i", "b", "e">>
UNSUBSCRIBE == <<"u", "n">> \o SUBSCRIBE

PubSubMessage(name, pattern, data) ==
    [channel_name |-> name, channel_pattern |-> pattern, data |-> data]
EMessage(m) == <<"Message", m>>
EPong(s) == <<"Pong", s>>
EList(kind, rest) == <<"List", kind, rest>>
EInt(n) == <<"Int", n>>
EOk(s) == <<"Ok", s>>
EError(s) == <<"Error", s>>

MissingMessage == "protocol error - 'message' missing some parameters (expects channel, data)"
MissingPMessage == "protocol error - 'message' missing some parameters (expects pattern, channel, data)"
ZeroLength == "pubsub stream error - zero length list - capture stream with socat for bug report"

(* the "message" arm with the channel and the payload exchanged             *)
message_arm_swapped(v) ==
    IF Len(v) >= 3
    THEN Ok(EMessage(PubSubMessage(as_str(v[3]), None, take_buffer(v[2]))))
    ELSE Err("InvalidData", MissingMessage)

(* the "message" arm: v is the whole list, v[1] the kind                    *)
message_arm(v) ==
    IF Len(v) >= 3
    THEN Ok(EMessage(PubSubMessage(as_str(v[2]), None, take_buffer(v[3]))))
    ELSE Err("InvalidData", MissingMessage)

pmessage_arm(v) ==
    IF Len(v) >= 4
    THEN Ok(EMessage(PubSubMessage(as_str(v[3]), Some(as_str(v[2])), take_buffer(v[4]))))
    ELSE Err("InvalidData", MissingPMessage)

(* the RedisValue::List arm                                                 *)
list_arm(v) ==
    IF Len(v) = 0 THEN Err("InvalidData", ZeroLength)
    ELSE CASE as_str(v[1]) = MESSAGE -> message_arm(v)
           [] as_str(v[1]) = PMESSAGE -> pmessage_arm(v)
           [] as_str(v[1]) = SUBSCRIBE -> Ok(EList(SUBSCRIBE, Tail(v)))
           [] as_str(v[1]) = UNSUBSCRIBE -> Ok(EList(UNSUBSCRIBE, Tail(v)))
           [] OTHER -> Ok(EList(as_str(v[1]), Tail(v)))

PONG == <<"P", "O", "N", "G">>

(* the RedisValue::Ok arm without the comparison with "PONG"                *)
ok_arm_plain(s) == Ok(EOk(s))

(* the RedisValue::Ok arm                                                   *)
ok_arm(s) == IF s = PONG THEN Ok(EPong(s)) ELSE Ok(EOk(s))

try_from(value) ==
    CASE value[1] = "List" -> list_arm(value[2])
      [] value[1] = "String" -> Ok(EPong(from_utf8_lossy(value[2])))
      [] value[1] = "Int" -> Ok(EInt(value[2]))
      [] value[1] = "Ok" -> ok_arm(value[2])
      [] value[1] = "Error" -> Ok(EError(value[2]))

----------------------------------------------------------------------------
(* The input streams of the model                                           *)

MaxText == 2
MaxRaw == 3
MaxFrames == 3

TextBytes == {"a", "b"}
RawBytes == {"+", "-", "$", "1", "#", CR, LF, BadByte}

SeqsUpTo(S, n) == UNION {[1..k -> S] : k \in 0..n}

Texts == SeqsUpTo(TextBytes, MaxText)
Ints == {-3, -1, 0, 5, 12}
Payloads == {<<>>, <<"a">>, <<"a", "b">>, <<"a", "b", "c">>, <<CR, LF>>, <<BadByte>>}

Scalars ==
    {SimpleString(s) : s \in Texts} \cup {Error(s) : s \in Texts}
    \cup {Integer(n) : n \in Ints}
    \cup {BulkString(None)} \cup {BulkString(Some(p)) : p \in Payloads}

Leaves == Scalars \cup {Array(None), Array(Some(<<>>))}

FewLeaves == {SimpleString(<<"a">>), Integer(5), BulkString(Some(<<"a", "b">>)),
              BulkString(None), Array(Some(<<>>))}

Arrays1 == {Array(Some(<<x>>)) : x \in Leaves}
           \cup {Array(Some(<<x, y>>)) : x \in FewLeaves, y \in FewLeaves}

Arrays2 == {Array(Some(<<x>>)) : x \in Arrays1}
           \cup {Array(Some(<<x, y>>)) : x \in {Array(Some(<<Integer(5)>>))}, y \in FewLeaves}

Arrays3 == {Array(Some(<<Array(Some(<<Array(Some(<<x>>))>>))>>)) : x \in FewLeaves}

Values == Leaves \cup Arrays1 \cup Arrays2 \cup Arrays3

Frames == {resp_encode(v) : v \in Values}

(* streams of up to MaxFrames frames                                        *)
FewValues == {SimpleString(<<"a">>), Error(<<>>), Integer(5), BulkString(Some(<<"a", "b">>)),
              Array(Some(<<Integer(5)>>))}
ValueSeqs == UNION {[1..k -> FewValues] : k \in 2..MaxFrames}

(* lines with arbitrary bytes behind each tag, some longer than ScanLimit   *)
LongText == <<"a", "a", "a", "a", "a", "a", "a", "a">>
LongTexts == {[i \in 1..k |-> "a"] : k \in ScanLimit..(ScanLimit + 2)}
BelowMinusOne == {<<"-", "3">>, <<"-", "1", "1">>}
Lines == {<<t>> \o body \o CRLF :
             t \in {"+", "-", ":", "$", "*"},
             body \in SeqsUpTo({"1", "-", "a", BadByte}, 2) \cup {LongText}
                      \cup LongTexts \cup BelowMinusOne}

Inputs ==
    Frames \cup {encode_all(vs) : vs \in ValueSeqs} \cup Lines
    \cup SeqsUpTo(RawBytes, MaxRaw)

----------------------------------------------------------------------------
(* The caller: appends the bytes of the stream to the buffer and calls      *)
(* decode; it stops using the session after a fatal error or a panic.       *)

NoCall == [kind |-> "NoCall", val |-> None, msg |-> "", pre |-> Fresh(<<>>), fed |-> 0]

Cur == St(ptr, cached_len, doing, stack, src)

Alive == last.kind \notin {"Fatal", "Panic"}

Init ==
    /\ input \in Inputs
    /\ fed = 0
    /\ src = <<>>
    /\ ptr = 0
    /\ cached_len = None
    /\ doing = "None"
    /\ stack = <<>>
    /\ last = NoCall
    /\ outs = <<>>
    /\ firstFed = -1
    /\ event = None

(* the transport delivers the next k bytes: BytesMut::extend_from_slice     *)
AppendBytes(k) ==
    /\ Alive
    /\ fed + k <= Len(input)
    /\ src' = src \o SubSeq(input, fed + 1, fed + k)
    /\ fed' = fed + k
    /\ UNCHANGED <<input, ptr, cached_len, doing, stack, last, outs, firstFed, event>>

(* one call of RespDecoder::decode on the buffer                            *)
Decode ==
    /\ Alive
    /\ \E c \in {decode(Cur)} :
           /\ ptr' = c.st.ptr
           /\ cached_len' = c.st.cached_len
           /\ doing' = c.st.doing
           /\ stack' = c.st.stack
           /\ src' = c.st.src
           /\ last' = [kind |-> c.r.kind, val |-> c.r.val, msg |-> c.r.msg, pre |-> Cur,
                      fed |-> fed]
           /\ outs' = IF c.r.kind = "Suspend" THEN outs
                      ELSE Append(outs, [kind |-> c.r.kind, val |-> c.r.val,
                                         msg |-> c.r.msg, used |-> fed - Len(c.st.src),
                                         fed |-> fed])
    /\ firstFed' = IF firstFed = -1 THEN fed ELSE firstFed
    /\ UNCHANGED <<input, fed, event>>

Next ==
    \/ \E k \in 1..Len(input) : AppendBytes(k)
    \/ Decode

Spec == Init /\ [][Next]_vars

----------------------------------------------------------------------------
(* The caller of redis_protocol: the same transport in front of             *)
(* RedisCodec::decode, and PubSubEvent::try_from on the value it returned.  *)

(* the example stream of the translation, and the same stream with the      *)
(* channel's length line counting the five bytes of chanA                   *)
Hello == <<"h", "e", "l", "l", "o">>
ChanA == <<"c", "h", "a", "n", "A">>
Bulk(n, b) == <<"$">> \o n \o CRLF \o b \o CRLF
ExampleAsWritten ==
    <<"*", "3">> \o CRLF \o Bulk(<<"7">>, MESSAGE) \o Bulk(<<"6">>, ChanA) \o Bulk(<<"5">>, Hello)
ExampleCounted ==
    <<"*", "3">> \o CRLF \o Bulk(<<"7">>, MESSAGE) \o Bulk(<<"5">>, ChanA) \o Bulk(<<"5">>, Hello)
ExamplePattern ==
    <<"*", "4">> \o CRLF \o Bulk(<<"8">>, PMESSAGE) \o Bulk(<<"1">>, <<"a">>)
    \o Bulk(<<"1">>, <<"b">>) \o Bulk(<<"1">>, <<BadByte>>)
ExamplePong == <<"+">> \o PONG \o CRLF

(* a frame, two frames one behind the other, lines and raw bytes            *)
FramePairs == {resp_encode(v) \o resp_encode(w) : v \in FewValues, w \in FewValues}

CodecInputs ==
    Frames \cup FramePairs \cup Lines \cup SeqsUpTo(RawBytes, MaxRaw)
    \cup {ExampleAsWritten, ExampleCounted, ExamplePattern, ExamplePong}

InitCodec ==
    /\ input \in CodecInputs
    /\ fed = 0
    /\ src = <<>>
    /\ ptr = 0
    /\ cached_len = None
    /\ doing = "None"
    /\ stack = <<>>
    /\ last = NoCall
    /\ outs = <<>>
    /\ firstFed = -1
    /\ event = None

(* one call of RedisCodec::decode on the buffer                             *)
CodecDecode ==
    /\ Alive
    /\ \E c \in {RedisCodec_decode(src)} :
           /\ src' = c.buf
           /\ last' = [kind |-> c.r.kind, val |-> c.r.val, msg |-> c.r.msg, pre |-> Cur,
                      fed |-> fed]
           /\ outs' = IF c.r.kind = "Suspend" THEN outs
                      ELSE Append(outs, [kind |-> c.r.kind, val |-> c.r.val,
                                         msg |-> c.r.msg, used |-> fed - Len(c.buf),
                                         fed |-> fed])
    /\ firstFed' = IF firstFed = -1 THEN fed ELSE firstFed
    /\ event' = None
    /\ UNCHANGED <<input, fed, ptr, cached_len, doing, stack>>

(* PubSubEvent::try_from(value): the argument and the Result                *)
Translated(value) == Some([arg |-> value, res |-> try_from(value)])

(* the value of the latest call is handed to the translator                 *)
Translate ==
    /\ last.kind = "Value"
    /\ event' = Translated(last.val[1])
    /\ UNCHANGED <<input, fed, src, ptr, cached_len, doing, stack, last, outs, firstFed>>

NextCodec ==
    \/ \E k \in 1..Len(input) : AppendBytes(k)
    \/ CodecDecode
    \/ Translate

SpecCodec == InitCodec /\ [][NextCodec]_vars

----------------------------------------------------------------------------
(* PubSubEvent::try_from on its own, over a bounded set of RedisValues      *)

KindTexts == {MESSAGE, PMESSAGE, SUBSCRIBE, UNSUBSCRIBE, <<"a">>}
OkTexts == {PONG, <<"P", "O", "N">>, <<"P", "O", "N", "G", "a">>, <<"p", "o", "n", "g">>,
            <<>>, <<"a">>, MESSAGE}
Elements == {LString(<<"a">>), LString(<<"b">>), LString(<<BadByte>>), LInt(12), LOk(<<"a">>)}
Kinds == {LString(k) : k \in KindTexts} \cup {LOk(MESSAGE), LList(<<LString(PMESSAGE)>>), LInt(5)}

TranslatorInputs ==
    {LString(p) : p \in Payloads \cup {PONG}} \cup {LInt(n) : n \in Ints}
    \cup {LOk(s) : s \in OkTexts} \cup {LError(s) : s \in OkTexts}
    \cup {LList(<<>>)}
    \cup {LList(<<k>> \o rest) : k \in Kinds, rest \in SeqsUpTo(Elements, MaxRaw)}

InitTranslate ==
    /\ input = <<>>
    /\ fed = 0
    /\ src = <<>>
    /\ ptr = 0
    /\ cached_len = None
    /\ doing = "None"
    /\ stack = <<>>
    /\ last = NoCall
    /\ outs = <<>>
    /\ firstFed = -1
    /\ event = None

TryFrom(value) ==
    /\ event' = Translated(value)
    /\ UNCHANGED <<input, fed, src, ptr, cached_len, doing, stack, last, outs, firstFed>>

NextTranslate == \E value \in TranslatorInputs : TryFrom(value)

SpecTranslate == InitTranslate /\ [][NextTranslate]_vars

----------------------------------------------------------------------------
(* Properties                                                               *)

(* the outcome of a fresh decoder given all of bytes in one call            *)
OneShot(bytes) == decode(Fresh(bytes))

(* the part of a recorded outcome that the caller sees                      *)
Seen(o) == <<o.kind, o.val, o.msg>>

(* every decode call so far had the whole stream in its buffer              *)
WholeFirst == firstFed = Len(input)

(* C1: a well-formed frame appended in non-empty fragments, decode called   *)
(* after appends, ends as a fresh decoder given the whole frame in one call *)
(* ends: the first outcome that is not Suspend is the one-shot outcome,     *)
(* with the same number of bytes removed, and it has come once the last     *)
(* fragment was appended and decode called.                                 *)
C1_ChunkingInvariance ==
    (input \in Frames /\ firstFed > 0) =>
        /\ Len(outs) >= 1 =>
              /\ Seen(outs[1]) = Seen(OneShot(input).r)
              /\ outs[1].used = Len(input) - Len(OneShot(input).st.src)
        /\ (fed = Len(input) /\ last.fed = fed) => Len(outs) >= 1

(* a frame that arrived in several fragments, with the scan suspended in    *)
(* the middle of its line, ended in a value                                 *)
C1_Witness ==
    /\ input \in Frames
    /\ firstFed > 0 /\ firstFed < Len(input)
    /\ Len(outs) = 1 /\ outs[1].kind = "Value"
    /\ last.kind = "Value" /\ last.pre.doing # "None" /\ last.pre.ptr > 0

(* C2: a fresh decoder given the wire encoding of a value v returns v       *)
C2_DecodeInvertsEncode ==
    \A v \in Values :
        (input = resp_encode(v) /\ WholeFirst /\ Len(outs) >= 1) =>
            outs[1].kind = "Value" /\ outs[1].val = Some(v)

(* the bytes of the first i frames of a stream of values                    *)
FramesLen(vs, i) == Len(encode_all(SubSeq(vs, 1, i)))

(* C3: with k concatenated frames in the buffer, the i-th decode call       *)
(* returns the i-th frame's value and has removed exactly the bytes of the  *)
(* first i frames                                                           *)
C3_OneValuePerFrame ==
    \A vs \in ValueSeqs :
        (input = encode_all(vs) /\ WholeFirst) =>
            \A i \in 1..Len(outs) :
                i <= Len(vs) =>
                    /\ outs[i].kind = "Value"
                    /\ outs[i].val = Some(vs[i])
                    /\ outs[i].used = FramesLen(vs, i)

Nested3 == Array(Some(<<Array(Some(<<Array(Some(<<Integer(5)>>))>>))>>))

(* C4: *1 *1 *1 :5 decodes to the three-deep array around Integer(5), in    *)
(* one buffer or appended in fragments down to one byte at a time           *)
C4_NestedArrays ==
    (input = resp_encode(Nested3) /\ firstFed > 0) =>
        /\ Len(outs) >= 1 => outs[1].kind = "Value" /\ outs[1].val = Some(Nested3)
        /\ (fed = Len(input) /\ last.fed = fed) => Len(outs) >= 1

(* C5: decode on an empty buffer with no operation in progress returns      *)
(* Suspend and leaves ptr, cached_len, doing, the stack and the buffer as   *)
(* they were                                                                *)
C5_StarvationAtTag ==
    (last.kind # "NoCall" /\ last.pre.src = <<>> /\ last.pre.doing = "None") =>
        last.kind = "Suspend" /\ Cur = last.pre

(* the length line of a bulk string of n bytes: tag, decimal, CRLF          *)
BulkHeader(n) == 1 + Len(to_dec(n)) + 2

(* C6: once the length line of a bulk string of n >= 0 bytes was read, a    *)
(* call with fewer than n+2 bytes behind it suspends with cached_len = n,   *)
(* doing = BulkString and nothing behind the length line removed; the call  *)
(* that has them all returns BulkString(payload)                            *)
C6_BulkSuspension ==
    \A p \in Payloads :
        (input = resp_encode(BulkString(Some(p))) /\ last.kind # "NoCall"
         /\ last.fed >= BulkHeader(Len(p)) /\ Len(outs) <= 1) =>
            IF last.fed < Len(input)
            THEN /\ last.kind = "Suspend"
                 /\ cached_len = Some(Len(p)) /\ doing = "BulkString"
                 /\ Len(src) = fed - BulkHeader(Len(p))
            ELSE last.kind = "Value" /\ last.val = Some(BulkString(Some(p)))

(* C7: a bulk string of declared length n comes back as the n bytes behind  *)
(* the length line, with exactly those n bytes and the CRLF removed, so the *)
(* buffer starts at the byte behind the terminator                          *)
C7_BulkConsumption ==
    \A p \in Payloads, vs \in {<<>>} \cup {<<v>> : v \in FewValues} :
        (input = resp_encode(BulkString(Some(p))) \o encode_all(vs)
         /\ WholeFirst /\ Len(outs) >= 1) =>
            /\ outs[1].val = Some(BulkString(Some(p)))
            /\ outs[1].used = BulkHeader(Len(p)) + Len(p) + 2

(* C8: $-1 is BulkString(None), $0 is BulkString(Some(empty)), *-1 is       *)
(* Array(None), *0 is Array(Some(empty)), each with an empty stack left     *)
C8_AbsentVersusEmpty ==
    \A v \in {BulkString(None), BulkString(Some(<<>>)), Array(None), Array(Some(<<>>))} :
        (input = resp_encode(v) /\ WholeFirst /\ Len(outs) = 1 /\ last.fed = fed) =>
            last.kind = "Value" /\ last.val = Some(v) /\ stack = <<>>

TagBytes == {"+", "-", ":", "$", "*"}

(* C9: a call that reads a tag byte (no operation in progress, a byte in    *)
(* the buffer) that is none of + - : $ * ends in a fatal error, whatever    *)
(* follows the byte and whatever is on the stack                            *)
C9_InvalidTagFatal ==
    (last.kind # "NoCall" /\ last.pre.doing = "None" /\ Len(last.pre.src) >= 1
     /\ last.pre.src[1] \notin TagBytes) =>
        last.kind = "Fatal" /\ last.msg = "invalid prefix"

(* an unknown tag with bytes behind it was read and refused                 *)
C9_Witness ==
    /\ last.kind = "Fatal" /\ last.msg = "invalid prefix"
    /\ last.pre.doing = "None" /\ Len(last.pre.src) >= 2
    /\ last.pre.src[1] = "#"

(* the bytes between the tag and the CRLF of a one-line stream              *)
LineBody == SubSeq(input, 2, Len(input) - 2)

(* C10: a + or - line is refused exactly when its bytes are not UTF-8, and  *)
(* else gives their text; a : $ * line is refused exactly when its bytes    *)
(* are no decimal integer, and a : line else gives that integer             *)
C10_LineValidation ==
    (input \in Lines /\ Len(LineBody) <= ScanLimit /\ WholeFirst /\ Len(outs) = 1
     /\ last.pre = Fresh(input)) =>
        IF input[1] \in {"+", "-"}
        THEN IF from_utf8_ok(LineBody)
             THEN last.val = Some(<<IF input[1] = "+" THEN "SimpleString" ELSE "Error", LineBody>>)
             ELSE last.kind = "Fatal" /\ last.msg = "invalid utf8"
        ELSE IF from_utf8_ok(LineBody) /\ parse_i64(LineBody) # None
             THEN /\ last.kind # "Fatal"
                  /\ input[1] = ":" => last.val = Some(Integer(parse_i64(LineBody)[1]))
             ELSE last.kind = "Fatal" /\ last.msg \in {"invalid utf8", "invalid integer"}

(* the bytes the line scanner of a call sees: the buffer behind the tag     *)
ScanBuf(pre) == IF pre.doing = "None" THEN Tail(pre.src) ELSE pre.src

(* offsets at or behind from where a CRLF starts                            *)
CrlfOffsets(buf, from) ==
    {p \in from..(Len(buf) - 2) : buf[p + 1] = CR /\ buf[p + 2] = LF}

(* C11: the scan cursor never passes ScanLimit + 1; a value is returned     *)
(* only from a line whose CRLF starts at an offset within the limit; and a  *)
(* call that resumes a scan with the cursor beyond the limit and two bytes  *)
(* to compare there ends in the fatal error "too long"                      *)
C11_FrameSizeGuard ==
    /\ ptr <= ScanLimit + 1
    /\ last.kind = "Value" =>
          \E p \in CrlfOffsets(ScanBuf(last.pre), last.pre.ptr) : p <= ScanLimit
    /\ (last.kind # "NoCall" /\ last.pre.doing # "None" /\ last.pre.ptr > ScanLimit
        /\ Len(last.pre.src) >= last.pre.ptr + 2) =>
          last.kind = "Fatal" /\ last.msg = "too long"

(* a scan that was suspended with its cursor beyond the limit was refused   *)
(* in the next call, though the bytes it was given held a CRLF              *)
C11_Witness ==
    /\ last.kind = "Fatal" /\ last.msg = "too long"
    /\ last.pre.ptr = ScanLimit + 1
    /\ CrlfOffsets(last.pre.src, last.pre.ptr) # {}

Max(a, b) == IF a >= b THEN a ELSE b

(* C16: a call whose line scan finds no CRLF returns Suspend and leaves the *)
(* scanned bytes in the buffer and the operation in doing; ptr is left at   *)
(* the first offset that has no two bytes to compare yet, never before the  *)
(* offset the call resumed from, and no offset before ptr starts a CRLF     *)
C16_ResumableScan ==
    (last.kind = "Suspend" /\ last.fed = fed /\ cached_len = None) =>
        /\ src = ScanBuf(last.pre)
        /\ doing # "None"
        /\ last.pre.doing # "None" => doing = last.pre.doing
        /\ stack = last.pre.stack
        /\ ptr = Max(last.pre.ptr, Len(src) - 1)
        /\ CrlfOffsets(src, 0) \cap 0..(ptr - 1) = {}

(* a scan resumed behind offset 0 and was suspended again further on        *)
C16_Witness ==
    /\ last.kind = "Suspend" /\ last.fed = fed
    /\ last.pre.doing # "None" /\ last.pre.ptr > 0 /\ ptr > last.pre.ptr

(* C19: when decode returns a value the stack is empty and the decoder is   *)
(* in its initial state: doing = None, cached_len = None, ptr = 0           *)
C19_ResetOnCompletion ==
    last.kind = "Value" =>
        stack = <<>> /\ doing = "None" /\ cached_len = None /\ ptr = 0

(* a value came from a scan that had been suspended behind offset 0         *)
C19_Witness ==
    /\ last.kind = "Value"
    /\ last.pre.doing # "None" /\ last.pre.ptr > 0
    /\ ptr = 0 /\ doing = "None"

(* the operation a call works on first: the one in progress, or the one of  *)
(* the tag byte it reads                                                    *)
CallOp(pre) ==
    IF pre.doing # "None" THEN pre.doing
    ELSE IF Len(pre.src) = 0 THEN "None"
    ELSE CASE pre.src[1] = "$" -> "BulkString"
           [] pre.src[1] = "*" -> "Array"
           [] OTHER -> "Other"

Min(S) == CHOOSE x \in S : \A y \in S : x <= y

(* the bytes of the first line of buf, up to its CRLF                       *)
FirstLine(buf) == SubSeq(buf, 1, Min(CrlfOffsets(buf, 0)))

(* the call has in its buffer the whole length or count line of a bulk      *)
(* string or array, and the line is a decimal integer below -1              *)
DeclaresBelowMinusOne(pre) ==
    /\ CallOp(pre) \in {"BulkString", "Array"}
    /\ pre.cached_len = None
    /\ CrlfOffsets(ScanBuf(pre), 0) # {}
    /\ parse_i64(FirstLine(ScanBuf(pre))) # None
    /\ parse_i64(FirstLine(ScanBuf(pre)))[1] < -1

ArrayHeader(n) == 1 + Len(to_dec(n)) + 2

(* C15: the call that reads the count line of an array of n >= 1 elements   *)
(* pushes its context and leaves doing = None, so the next byte of the      *)
(* stream is read as the tag of the first element                           *)
C15_ElementTagAfterHeader ==
    \A v \in Arrays1 :
        (input = resp_encode(v) /\ last.kind # "NoCall"
         /\ last.fed = fed /\ fed = ArrayHeader(Len(v[2][1]))
         /\ Len(last.pre.src) >= 1) =>
            /\ last.kind = "Suspend"
            /\ Len(stack) = 1 /\ stack[1].rem = Len(v[2][1])
            /\ doing = "None" /\ src = <<>>

(* C17: the context of an array of n >= 1 elements keeps rem + len(items)   *)
(* = n, holds the elements decoded so far in wire order, and is turned into *)
(* Array(Some(items)) by the call that decodes its last element             *)
C17_AggregateAccounting ==
    \A v \in Arrays1 \cup Arrays2 :
        (input = resp_encode(v) /\ firstFed > 0 /\ last.fed >= ArrayHeader(Len(v[2][1]))) =>
            /\ last.fed < Len(input) =>
                  /\ last.kind = "Suspend"
                  /\ Len(stack) >= 1
                  /\ stack[1].rem >= 1
                  /\ stack[1].rem + Len(stack[1].items) = Len(v[2][1])
                  /\ stack[1].items = SubSeq(v[2][1], 1, Len(stack[1].items))
            /\ Len(outs) >= 1 =>
                  outs[1].kind = "Value" /\ outs[1].val = Some(v) /\ outs[1].fed = Len(input)
            /\ (fed = Len(input) /\ last.fed = fed) => Len(outs) >= 1

(* an element that is a String of valid UTF-8 reads as its bytes            *)
PlainText(e) == e[1] = "String" /\ from_utf8_ok(e[2])

(* C12: a List reading "message" with channel and data becomes              *)
(* Message{channel, None, data}, one reading "pmessage" with pattern,       *)
(* channel and data becomes Message{channel, Some(pattern), data}, and an   *)
(* empty List or one with a trailing element missing is an error            *)
C12_MessageTranslation ==
    (event # None /\ event[1].arg[1] = "List") =>
        /\ Len(event[1].arg[2]) = 0 => ~event[1].res.ok
        /\ (Len(event[1].arg[2]) >= 1 /\ as_str(event[1].arg[2][1]) = MESSAGE) =>
              /\ event[1].res.ok <=> Len(event[1].arg[2]) >= 3
              /\ (Len(event[1].arg[2]) >= 3 /\ PlainText(event[1].arg[2][2])
                  /\ event[1].arg[2][3][1] = "String") =>
                     event[1].res.v = <<"Message", [channel_name |-> event[1].arg[2][2][2],
                                                    channel_pattern |-> None,
                                                    data |-> event[1].arg[2][3][2]]>>
        /\ (Len(event[1].arg[2]) >= 1 /\ as_str(event[1].arg[2][1]) = PMESSAGE) =>
              /\ event[1].res.ok <=> Len(event[1].arg[2]) >= 4
              /\ (Len(event[1].arg[2]) >= 4 /\ PlainText(event[1].arg[2][2])
                  /\ PlainText(event[1].arg[2][3]) /\ event[1].arg[2][4][1] = "String") =>
                     event[1].res.v = <<"Message", [channel_name |-> event[1].arg[2][3][2],
                                                    channel_pattern |-> Some(event[1].arg[2][2][2]),
                                                    data |-> event[1].arg[2][4][2]]>>

C12_Witness ==
    /\ event # None
    /\ event[1].arg = LList(<<LString(MESSAGE), LString(<<"a">>), LString(<<BadByte>>)>>)
    /\ event[1].res.ok
    /\ event[1].res.v[2].channel_name = <<"a">>

(* C14: Ok(s) becomes Pong(s) exactly when s is "PONG" and Ok(s) for every  *)
(* other s, and is never an error                                           *)
C14_PongSpecialCase ==
    (event # None /\ event[1].arg[1] = "Ok") =>
        /\ event[1].res.ok
        /\ event[1].res.v[2] = event[1].arg[2]
        /\ event[1].res.v[1] = "Pong" <=> event[1].arg[2] = <<"P", "O", "N", "G">>
        /\ event[1].res.v[1] \in {"Pong", "Ok"}

C14_Witness ==
    /\ event # None
    /\ event[1].arg = LOk(PONG)
    /\ event[1].res = Ok(<<"Pong", PONG>>)

(* the call that has the whole stream in its buffer                         *)
WholeStream == last.kind # "NoCall" /\ last.pre.src = input

HelloOnChanA ==
    Ok(<<"Message", [channel_name |-> ChanA, channel_pattern |-> None, data |-> Hello]>>)

(* C13 as stated: the stream *3 $7 message $6 chanA $5 hello decodes to a   *)
(* value, and the value translates to Message{chanA, absent, hello}         *)
C13_ExampleAsWritten ==
    (input = ExampleAsWritten /\ WholeStream) =>
        /\ last.kind = "Value"
        /\ event # None => event[1].res = HelloOnChanA

(* C13: the stream *3 $7 message $5 chanA $5 hello, the channel's length    *)
(* line counting its five bytes, decodes to a value once it is whole, and   *)
(* the value translates to Message{chanA, absent, hello}                    *)
C13_ExampleCounted ==
    (input = ExampleCounted /\ WholeStream) =>
        /\ last.kind = "Value"
        /\ last.val = Some(LList(<<LString(MESSAGE), LString(ChanA), LString(Hello)>>))
        /\ event # None => event[1].res = HelloOnChanA

C13_Witness ==
    /\ input = ExampleCounted
    /\ WholeStream
    /\ event # None
    /\ event[1].res = HelloOnChanA

(* the value RedisCodec gives for the frame of v: an absent bulk string or  *)
(* array is the empty one                                                   *)
RECURSIVE LegacyOf(_)
LegacyOf(v) ==
    CASE v[1] = "SimpleString" -> LOk(v[2])
      [] v[1] = "Error" -> LError(v[2])
      [] v[1] = "Integer" -> LInt(v[2])
      [] v[1] = "BulkString" -> IF v[2] = None THEN LString(<<>>) ELSE LString(v[2][1])
      [] v[1] = "Array" -> IF v[2] = None THEN LList(<<>>)
                           ELSE LList([i \in 1..Len(v[2][1]) |-> LegacyOf(v[2][1][i])])

StartsWith(w, f) == Len(w) >= Len(f) /\ SubSeq(w, 1, Len(f)) = f
FrameLen(v) == Len(resp_encode(v))

(* the call whose buffer holds the stream from its first byte               *)
FromStart == last.kind # "NoCall" /\ last.pre.src = SubSeq(input, 1, last.fed)

C21_OpenContextsIncomplete ==
    \A i \in 1..Len(stack) :
        /\ stack[i].rem >= 1
        /\ ArrayContext_push(stack[i], Integer(0)).rem >= 0

(* C21: the state the claim is about, a context on the stack; no call       *)
(* leaves one, because get_array never gets a count from inner_i32          *)
C21_OpenContext == Len(stack) >= 1

====
